---- MODULE Spec2Model ----
(***************************************************************************)
(* Model of app.py: the separator-priority text chunker                    *)
(* (split_text_into_chunks) and the two translation orchestrators          *)
(* (translate_streaming, translate_file_process).                          *)
(*                                                                         *)
(* A text is a sequence of one-character strings.  A translated output is  *)
(* a sequence of pieces (records): the fragments returned by the service,  *)
(* the "\n\n" chunk separator, and the inline error markers.               *)
(***************************************************************************)
EXTENDS Integers, Sequences, FiniteSets, TLC

VARIABLES
    \* split_text_into_chunks
    text,              \* the text being split / translated
    max_chunk_size,    \* int(chunk_size)
    segments,          \* decomposition work list
    sepIdx,            \* position in "for sep in separators"
    final_atoms,       \* atoms after the hard split
    chunks,            \* returned chunks
    pc,                \* control location of the running function
    \* translate_streaming / translate_file_process
    mode,              \* "chunker", "streaming" or "batch"
    file_obj,          \* batch input: "none", "invalid", "unreadable", "ok"
    i,                 \* 1-based index of the current chunk, 0 = unbound
    full_translation,  \* accumulated output, Unbound before its assignment
    chunk_accumulated, \* partial translation of the current chunk
    nev,               \* stream events consumed for the current chunk
    exc,               \* reason of the exception being handled
    pending,           \* value of the yield the generator is suspended at
    emitted,           \* updates delivered to the caller, in order
    cancelled,         \* Stop was clicked
    output_file,       \* content written to translated_<name>
    \* the completion service, as seen by the job
    requests,          \* chunk indices requested, in order
    inflight,          \* chunk indices with an open request
    received,          \* per chunk, what the service returned
    status,            \* per chunk: pending / inprogress / done / failed
    failure,           \* per chunk, the failure reason ("" if none)
    cancelAt           \* job state recorded when Stop was clicked

cvars == <<text, max_chunk_size, segments, sepIdx, final_atoms, chunks, pc>>

jvars == <<mode, file_obj, i, full_translation, chunk_accumulated, nev, exc,
           pending, emitted, cancelled, output_file, requests, inflight,
           received, status, failure, cancelAt>>

vars == <<cvars, jvars>>

\* ---------------------------------------------------------------- bounds
MaxLen == 4        \* longest text given to the chunker
MaxM == 4          \* largest size limit given to the chunker
MaxJobLen == 3     \* longest text given to a translation job
MaxChunkSize == 2  \* largest chunk size given to a translation job
MaxEvents == 2     \* most stream events the service sends for one chunk

\* ------------------------------------------------------------ characters
NL == "\n"
SP == " "
Alphabet == {"a", "b", SP, ".", "?", "!", NL}

RECURSIVE TextsOfLen(_)
TextsOfLen(n) ==
    IF n = 0 THEN {<<>>}
    ELSE {Append(t, c) : t \in TextsOfLen(n - 1), c \in Alphabet}

Texts(n) == UNION {TextsOfLen(k) : k \in 0..n}

\* separators = ["\n\n", "\n", ". ", "? ", "! ", " "]
separators == << <<NL, NL>>, <<NL>>, <<".", SP>>, <<"?", SP>>, <<"!", SP>>, <<SP>> >>

\* ------------------------------------------------------ string helpers
RECURSIVE Flatten(_)
Flatten(ss) == IF ss = <<>> THEN <<>> ELSE Head(ss) \o Flatten(Tail(ss))

\* str.find: index of the leftmost occurrence of sep in s, 0 when absent
Find(s, sep) ==
    LET hits == {k \in 1..(Len(s) - Len(sep) + 1) : SubSeq(s, k, k + Len(sep) - 1) = sep}
    IN IF hits = {} THEN 0 ELSE CHOOSE k \in hits : \A h \in hits : k <= h

\* str.split(sep): leftmost, non-overlapping occurrences; empty parts are kept
RECURSIVE PySplit(_, _)
PySplit(s, sep) ==
    LET k == Find(s, sep)
    IN IF k = 0 THEN <<s>>
       ELSE <<SubSeq(s, 1, k - 1)>> \o PySplit(SubSeq(s, k + Len(sep), Len(s)), sep)

\* -------------------------------------------------- 1. decomposition
\* variant: the separator is not re-attached to the parts
DecomposeSegDropSep(seg, sep, M) ==
    IF Len(seg) <= M THEN <<seg>>
    ELSE LET parts == PySplit(seg, sep)
         IN IF Len(parts) = 1 THEN <<seg>> ELSE parts

\* body of "for seg in segments" for one separator
DecomposeSeg(seg, sep, M) ==
    IF Len(seg) <= M THEN <<seg>>
    ELSE LET parts == PySplit(seg, sep)
         IN IF Len(parts) = 1 THEN <<seg>>
            ELSE [k \in 1..Len(parts) |->
                     IF k < Len(parts) THEN parts[k] \o sep ELSE parts[k]]

RECURSIVE DecomposeBy(_, _, _)
DecomposeBy(segs, sep, M) ==
    IF segs = <<>> THEN <<>>
    ELSE DecomposeSeg(Head(segs), sep, M) \o DecomposeBy(Tail(segs), sep, M)

\* ------------------------------------------------ 2. final hard split
\* seg[i:i+M] for i in range(0, len(seg), M); M >= 1 here
HardSlices(seg, M) ==
    LET n == (Len(seg) + M - 1) \div M
    IN [k \in 1..n |->
           SubSeq(seg, (k - 1) * M + 1,
                  IF k * M <= Len(seg) THEN k * M ELSE Len(seg))]

\* variant: an oversized segment is kept whole
HardSplitSegNoCut(seg, M) == <<seg>>

HardSplitSeg(seg, M) ==
    IF Len(seg) > M THEN HardSlices(seg, M) ELSE <<seg>>

RECURSIVE HardSplitAll(_, _)
HardSplitAll(segs, M) ==
    IF segs = <<>> THEN <<>>
    ELSE HardSplitSeg(Head(segs), M) \o HardSplitAll(Tail(segs), M)

\* range(0, len(seg), 0) raises ValueError
HardSplitRaises(segs, M) ==
    M = 0 /\ \E k \in 1..Len(segs) : Len(segs[k]) > M

\* ---------------------------------------------------- 3. bottom-up merge
\* variant: an atom is merged only when the result stays below the limit
MergeStepStrict(st, atom, M) ==
    IF Len(st[2]) + Len(atom) < M
    THEN <<st[1], st[2] \o atom>>
    ELSE <<IF st[2] # <<>> THEN Append(st[1], st[2]) ELSE st[1], atom>>

\* loop state is <<chunks, current_chunk>>
MergeStep(st, atom, M) ==
    IF Len(st[2]) + Len(atom) <= M
    THEN <<st[1], st[2] \o atom>>
    ELSE <<IF st[2] # <<>> THEN Append(st[1], st[2]) ELSE st[1], atom>>

RECURSIVE MergeLoop(_, _, _)
MergeLoop(st, atoms, M) ==
    IF atoms = <<>> THEN st
    ELSE MergeLoop(MergeStep(st, Head(atoms), M), Tail(atoms), M)

\* variant: the chunk still open when the loop ends is not appended
MergeAtomsDropLast(atoms, M) == MergeLoop(<< <<>>, <<>> >>, atoms, M)[1]

MergeAtoms(atoms, M) ==
    LET st == MergeLoop(<< <<>>, <<>> >>, atoms, M)
    IN IF st[2] # <<>> THEN Append(st[1], st[2]) ELSE st[1]

\* ------------------------------------------- the chunker as a function
RECURSIVE DecomposeAll(_, _, _)
DecomposeAll(segs, k, M) ==
    IF k > Len(separators) THEN segs
    ELSE DecomposeAll(DecomposeBy(segs, separators[k], M), k + 1, M)

split_text_into_chunks(t, M) ==
    IF t = <<>> THEN <<>>
    ELSE MergeAtoms(HardSplitAll(DecomposeAll(<<t>>, 1, M), M), M)

split_raises(t, M) ==
    t # <<>> /\ HardSplitRaises(DecomposeAll(<<t>>, 1, M), M)

\* ======================================================== job values
NoUpdate == [text |-> <<>>, label |-> [kind |-> "nothing", chunk |-> 0, total |-> 0], path |-> ""]
NoCancel == [pc |-> "", requests |-> <<>>, emitted |-> <<>>]

Piece(k, c, n, r) == [kind |-> k, chunk |-> c, n |-> n, reason |-> r]

\* full_translation before "full_translation = ''" has run
Unbound == <<Piece("unbound", 0, 0, "")>>

JobIdle ==
    /\ file_obj = "none"
    /\ i = 0
    /\ full_translation = Unbound
    /\ chunk_accumulated = <<>>
    /\ nev = 0
    /\ exc = ""
    /\ pending = NoUpdate
    /\ emitted = <<>>
    /\ cancelled = FALSE
    /\ output_file = Unbound
    /\ requests = <<>>
    /\ inflight = {}
    /\ received = <<>>
    /\ status = <<>>
    /\ failure = <<>>
    /\ cancelAt = NoCancel

\* =================================================== chunker, stepwise
ChunkerInit ==
    /\ text \in Texts(MaxLen)
    /\ max_chunk_size \in 1..MaxM
    /\ segments = <<>>
    /\ sepIdx = 0
    /\ final_atoms = <<>>
    /\ chunks = <<>>
    /\ pc = "call"
    /\ mode = "chunker"
    /\ JobIdle

\* if not text: return []
EmptyReturn ==
    /\ pc = "call"
    /\ text = <<>>
    /\ pc' = "returned"
    /\ chunks' = <<>>
    /\ UNCHANGED <<text, max_chunk_size, segments, sepIdx, final_atoms, jvars>>

\* segments = [text]
BeginDecompose ==
    /\ pc = "call"
    /\ text # <<>>
    /\ segments' = <<text>>
    /\ sepIdx' = 1
    /\ pc' = "decompose"
    /\ UNCHANGED <<text, max_chunk_size, final_atoms, chunks, jvars>>

\* one iteration of "for sep in separators"
DecomposePass ==
    /\ pc = "decompose"
    /\ segments' = DecomposeBy(segments, separators[sepIdx], max_chunk_size)
    /\ IF sepIdx < Len(separators)
       THEN sepIdx' = sepIdx + 1 /\ pc' = "decompose"
       ELSE sepIdx' = sepIdx /\ pc' = "hardsplit"
    /\ UNCHANGED <<text, max_chunk_size, final_atoms, chunks, jvars>>

HardSplitPass ==
    /\ pc = "hardsplit"
    /\ final_atoms' = HardSplitAll(segments, max_chunk_size)
    /\ pc' = "merge"
    /\ UNCHANGED <<text, max_chunk_size, segments, sepIdx, chunks, jvars>>

MergePass ==
    /\ pc = "merge"
    /\ chunks' = MergeAtoms(final_atoms, max_chunk_size)
    /\ pc' = "returned"
    /\ UNCHANGED <<text, max_chunk_size, segments, sepIdx, final_atoms, jvars>>

ChunkerNext ==
    \/ EmptyReturn
    \/ BeginDecompose
    \/ DecomposePass
    \/ HardSplitPass
    \/ MergePass

SpecChunker == ChunkerInit /\ [][ChunkerNext]_vars

\* ============================================== translation jobs
JobAlphabet == {"a", SP}

RECURSIVE JobTextsOfLen(_)
JobTextsOfLen(n) ==
    IF n = 0 THEN {<<>>}
    ELSE {Append(t, c) : t \in JobTextsOfLen(n - 1), c \in JobAlphabet}

JobTexts == UNION {JobTextsOfLen(k) : k \in 0..MaxJobLen}

\* reasons str(e) of a failing service call
ServiceErrors == {"refused", "timeout"}

Sep == Piece("sep", 0, 0, "")                \* "\n\n"
Frag(c, k) == Piece("frag", c, k, "")        \* text returned by the service
ErrorMarker(c, r) == Piece("error", c, 0, r) \* "\n[Error translating chunk c: r]\n"
Hint == Piece("hint", 0, 0, "")              \* "\nPlease ensure LM Studio is running ..."
Message(m) == <<Piece("message", 0, 0, m)>>

Label(k, c, t) == [kind |-> k, chunk |-> c, total |-> t]
NoLabel == Label("none", 0, 0)
Update(t, l, p) == [text |-> t, label |-> l, path |-> p]

Running == pc \notin {"call", "done", "cancelled", "raised"}

JobInit ==
    /\ mode \in {"streaming", "batch"}
    /\ text \in JobTexts
    /\ max_chunk_size \in 0..MaxChunkSize
    /\ file_obj \in (IF mode = "batch" THEN {"none", "invalid", "unreadable", "ok"} ELSE {"none"})
    \* a file that is missing or unreadable has no content to vary
    /\ (file_obj # "ok" /\ mode = "batch") => (text = <<>> /\ max_chunk_size = 1)
    /\ segments = <<>>
    /\ sepIdx = 0
    /\ final_atoms = <<>>
    /\ chunks = <<>>
    /\ pc = "call"
    /\ i = 0
    /\ full_translation = Unbound
    /\ chunk_accumulated = <<>>
    /\ nev = 0
    /\ exc = ""
    /\ pending = NoUpdate
    /\ emitted = <<>>
    /\ cancelled = FALSE
    /\ output_file = Unbound
    /\ requests = <<>>
    /\ inflight = {}
    /\ received = <<>>
    /\ status = <<>>
    /\ failure = <<>>
    /\ cancelAt = NoCancel

\* the generator runs only while it is not suspended at a yield
Active(m, loc) == mode = m /\ pc = loc /\ pending = NoUpdate

chunkerVars == <<segments, sepIdx, final_atoms>>
inputVars == <<text, max_chunk_size, mode, file_obj>>
serviceVars == <<requests, inflight, received, status, failure>>

\* chunks = split_text_into_chunks(text, int(chunk_size)); full_translation = ""
SplitOk ==
    /\ ~split_raises(text, max_chunk_size)
    /\ chunks' = split_text_into_chunks(text, max_chunk_size)
    /\ full_translation' = <<>>
    /\ received' = [j \in 1..Len(chunks') |-> <<>>]
    /\ status' = [j \in 1..Len(chunks') |-> "pending"]
    /\ failure' = [j \in 1..Len(chunks') |-> ""]

\* client.chat.completions.create(...) is called for the next chunk
IssueRequest ==
    /\ i < Len(chunks)
    /\ i' = i + 1
    /\ requests' = Append(requests, i + 1)
    /\ inflight' = inflight \cup {i + 1}
    /\ status' = [status EXCEPT ![i + 1] = "inprogress"]
    /\ pc' = "create"

\* ------------------------------------------------ translate_streaming
\* if not text: yield "", ""; return
S_Empty ==
    /\ Active("streaming", "call")
    /\ text = <<>>
    /\ pending' = Update(<<>>, Label("empty", 0, 0), "")
    /\ pc' = "return"
    /\ UNCHANGED <<inputVars, chunkerVars, chunks, i, full_translation,
                   chunk_accumulated, nev, exc, emitted, cancelled,
                   output_file, serviceVars, cancelAt>>

\* client = get_client(base_url, DEFAULT_API_KEY), inside the try
S_Client ==
    /\ Active("streaming", "call")
    /\ text # <<>>
    /\ \/ pc' = "split" /\ exc' = exc
       \/ pc' = "except" /\ exc' = "client"
    /\ UNCHANGED <<inputVars, chunkerVars, chunks, i, full_translation,
                   chunk_accumulated, nev, pending, emitted, cancelled,
                   output_file, serviceVars, cancelAt>>

S_Split ==
    /\ Active("streaming", "split")
    /\ IF split_raises(text, max_chunk_size)
       THEN /\ pc' = "except"
            /\ exc' = "range() arg 3 must not be zero"
            /\ UNCHANGED <<chunks, full_translation, received, status, failure>>
       ELSE /\ SplitOk
            /\ pc' = "loop"
            /\ exc' = exc
    /\ UNCHANGED <<inputVars, chunkerVars, i, chunk_accumulated, nev, pending,
                   emitted, cancelled, output_file, requests, inflight, cancelAt>>

\* for i, chunk in enumerate(chunks): ... client.chat.completions.create(stream=True)
S_Request ==
    /\ Active("streaming", "loop")
    /\ IssueRequest
    /\ UNCHANGED <<inputVars, chunkerVars, chunks, full_translation,
                   chunk_accumulated, nev, exc, pending, emitted, cancelled,
                   output_file, received, failure, cancelAt>>

\* create() returned the stream; chunk_accumulated = ""
S_CreateOk ==
    /\ Active("streaming", "create")
    /\ chunk_accumulated' = <<>>
    /\ nev' = 0
    /\ pc' = "stream"
    /\ UNCHANGED <<inputVars, chunkerVars, chunks, i, full_translation, exc,
                   pending, emitted, cancelled, output_file, serviceVars, cancelAt>>

\* create() raised
S_CreateFail ==
    /\ Active("streaming", "create")
    /\ \E e \in ServiceErrors :
          /\ exc' = e
          /\ failure' = [failure EXCEPT ![i] = e]
    /\ status' = [status EXCEPT ![i] = "failed"]
    /\ inflight' = inflight \ {i}
    /\ pc' = "except"
    /\ UNCHANGED <<inputVars, chunkerVars, chunks, i, full_translation,
                   chunk_accumulated, nev, pending, emitted, cancelled,
                   output_file, requests, received, cancelAt>>

\* for stream_chunk in response: a delta with content
S_Fragment ==
    /\ Active("streaming", "stream")
    /\ nev < MaxEvents
    /\ nev' = nev + 1
    /\ chunk_accumulated' = Append(chunk_accumulated, Frag(i, nev + 1))
    /\ received' = [received EXCEPT ![i] = Append(@, Frag(i, nev + 1))]
    /\ pending' = Update(full_translation \o chunk_accumulated',
                         Label("processing", i, Len(chunks)), "")
    /\ UNCHANGED <<inputVars, chunkerVars, chunks, pc, i, full_translation, exc,
                   emitted, cancelled, output_file, requests, inflight,
                   status, failure, cancelAt>>

\* a delta whose content is None is skipped
S_NoneDelta ==
    /\ Active("streaming", "stream")
    /\ nev < MaxEvents
    /\ nev' = nev + 1
    /\ UNCHANGED <<inputVars, chunkerVars, chunks, pc, i, full_translation,
                   chunk_accumulated, exc, pending, emitted, cancelled,
                   output_file, serviceVars, cancelAt>>

\* the stream raised while being consumed
S_StreamFail ==
    /\ Active("streaming", "stream")
    /\ \E e \in ServiceErrors :
          /\ exc' = e
          /\ failure' = [failure EXCEPT ![i] = e]
    /\ status' = [status EXCEPT ![i] = "failed"]
    /\ inflight' = inflight \ {i}
    /\ pc' = "except"
    /\ UNCHANGED <<inputVars, chunkerVars, chunks, i, full_translation,
                   chunk_accumulated, nev, pending, emitted, cancelled,
                   output_file, requests, received, cancelAt>>

\* variant: the finished chunk is appended without the separator
AppendFinishedNoSep(ft, acc) == ft \o acc

\* full_translation += chunk_accumulated + "\n\n"
AppendFinished(ft, acc) == ft \o acc \o <<Sep>>

\* variant: no yield when a chunk completes
CompletedUpdateNoYield(ft, c, n) == NoUpdate

\* yield full_translation, "Completed i of N chunks."
CompletedUpdate(ft, c, n) == Update(ft, Label("completed", c, n), "")

\* the stream ended
S_StreamEnd ==
    /\ Active("streaming", "stream")
    /\ full_translation' = AppendFinished(full_translation, chunk_accumulated)
    /\ status' = [status EXCEPT ![i] = "done"]
    /\ inflight' = inflight \ {i}
    /\ pending' = CompletedUpdate(full_translation', i, Len(chunks))
    /\ pc' = "loop"
    /\ UNCHANGED <<inputVars, chunkerVars, chunks, i, chunk_accumulated, nev,
                   exc, emitted, cancelled, output_file, requests, received,
                   failure, cancelAt>>

\* text yielded by the except clause
ErrorView(ft, acc, c, r) == ft \o <<ErrorMarker(c, r), Hint>>

\* variant: the failure is handled inside the loop, which goes on
AfterErrorContinue == "loop"

\* where the except clause leaves the generator
AfterError == "return"

\* except Exception as e: yield full_translation + "[Error ...]", "Error on chunk i"
\* full_translation is read before it is assigned when the try failed early
S_Except ==
    /\ Active("streaming", "except")
    /\ IF full_translation = Unbound
       THEN /\ pc' = "raised"
            /\ exc' = "UnboundLocalError"
            /\ pending' = pending
       ELSE /\ pending' = Update(ErrorView(full_translation, chunk_accumulated, i, exc),
                                 Label("error", i, 0), "")
            /\ pc' = AfterError
            /\ exc' = exc
    /\ UNCHANGED <<inputVars, chunkerVars, chunks, i, full_translation,
                   chunk_accumulated, nev, emitted, cancelled, output_file,
                   serviceVars, cancelAt>>

\* the loop is exhausted and the generator returns
S_Finish ==
    /\ Active("streaming", "loop")
    /\ i = Len(chunks)
    /\ pc' = "done"
    /\ UNCHANGED <<inputVars, chunkerVars, chunks, i, full_translation,
                   chunk_accumulated, nev, exc, pending, emitted, cancelled,
                   output_file, serviceVars, cancelAt>>

\* --------------------------------------------- translate_file_process
\* file_obj is None, or has no name
B_NoFile ==
    /\ Active("batch", "call")
    /\ file_obj \in {"none", "invalid"}
    /\ pending' = Update(Message(IF file_obj = "none"
                                 THEN "Please upload a file first."
                                 ELSE "Error: Invalid file object received."),
                         NoLabel, "")
    /\ pc' = "return"
    /\ UNCHANGED <<inputVars, chunkerVars, chunks, i, full_translation,
                   chunk_accumulated, nev, exc, emitted, cancelled,
                   output_file, serviceVars, cancelAt>>

\* with open(file_path) as f: text = f.read()
B_Read ==
    /\ Active("batch", "call")
    /\ file_obj \in {"unreadable", "ok"}
    /\ IF file_obj = "unreadable"
       THEN /\ pending' = Update(Message("Error reading file"), NoLabel, "")
            /\ pc' = "return"
       ELSE /\ pending' = pending
            /\ pc' = "client"
    /\ UNCHANGED <<inputVars, chunkerVars, chunks, i, full_translation,
                   chunk_accumulated, nev, exc, emitted, cancelled,
                   output_file, serviceVars, cancelAt>>

\* client = get_client(...), outside any try
B_Client ==
    /\ Active("batch", "client")
    /\ \/ pc' = "split" /\ exc' = exc
       \/ pc' = "raised" /\ exc' = "client"
    /\ UNCHANGED <<inputVars, chunkerVars, chunks, i, full_translation,
                   chunk_accumulated, nev, pending, emitted, cancelled,
                   output_file, serviceVars, cancelAt>>

\* chunks = split_text_into_chunks(...), outside any try; yield "Starting ..."
B_Split ==
    /\ Active("batch", "split")
    /\ IF split_raises(text, max_chunk_size)
       THEN /\ pc' = "raised"
            /\ exc' = "range() arg 3 must not be zero"
            /\ UNCHANGED <<chunks, full_translation, received, status, failure, pending>>
       ELSE /\ SplitOk
            /\ pending' = Update(Message("Starting translation"),
                                 Label("starting", 0, Len(chunks')), "")
            /\ pc' = "loop"
            /\ exc' = exc
    /\ UNCHANGED <<inputVars, chunkerVars, i, chunk_accumulated, nev,
                   emitted, cancelled, output_file, requests, inflight, cancelAt>>

\* client.chat.completions.create(stream=False)
B_Request ==
    /\ Active("batch", "loop")
    /\ IssueRequest
    /\ UNCHANGED <<inputVars, chunkerVars, chunks, full_translation,
                   chunk_accumulated, nev, exc, pending, emitted, cancelled,
                   output_file, received, failure, cancelAt>>

\* yield full_translation, None
PreviewUpdate(ft) == Update(ft, NoLabel, "")

\* chunk_translation = response.choices[0].message.content or ""
B_ResponseOk ==
    /\ Active("batch", "create")
    /\ \E content \in {<<>>, <<Frag(i, 1)>>} :
          /\ received' = [received EXCEPT ![i] = content]
          /\ full_translation' = AppendFinished(full_translation, content)
    /\ status' = [status EXCEPT ![i] = "done"]
    /\ inflight' = inflight \ {i}
    /\ pending' = PreviewUpdate(full_translation')
    /\ pc' = "loop"
    /\ UNCHANGED <<inputVars, chunkerVars, chunks, i, chunk_accumulated, nev,
                   exc, emitted, cancelled, output_file, requests, failure, cancelAt>>

\* variant: the failure leaves no marker
AppendErrorSilent(ft, c, r) == ft

\* except Exception as e: full_translation += error_msg
AppendError(ft, c, r) == Append(ft, ErrorMarker(c, r))

B_ResponseFail ==
    /\ Active("batch", "create")
    /\ \E e \in ServiceErrors :
          /\ failure' = [failure EXCEPT ![i] = e]
          /\ full_translation' = AppendError(full_translation, i, e)
    /\ status' = [status EXCEPT ![i] = "failed"]
    /\ inflight' = inflight \ {i}
    /\ pending' = PreviewUpdate(full_translation')
    /\ pc' = "loop"
    /\ UNCHANGED <<inputVars, chunkerVars, chunks, i, chunk_accumulated, nev,
                   exc, emitted, cancelled, output_file, requests, received, cancelAt>>

\* with open(output_path, "w") as f: f.write(full_translation); yield ..., output_path
B_Save ==
    /\ Active("batch", "loop")
    /\ i = Len(chunks)
    /\ \/ /\ output_file' = full_translation
          /\ pending' = Update(full_translation, NoLabel, "translated_")
          /\ pc' = "return"
          /\ exc' = exc
       \/ /\ pc' = "raised"
          /\ exc' = "write"
          /\ UNCHANGED <<output_file, pending>>
    /\ UNCHANGED <<inputVars, chunkerVars, chunks, i, full_translation,
                   chunk_accumulated, nev, emitted, cancelled, serviceVars, cancelAt>>

\* ------------------------------------------------ the generator's caller
\* the generator returns after its last yield
Return ==
    /\ pc = "return"
    /\ pending = NoUpdate
    /\ pc' = "done"
    /\ UNCHANGED <<inputVars, chunkerVars, chunks, i, full_translation,
                   chunk_accumulated, nev, exc, pending, emitted, cancelled,
                   output_file, serviceVars, cancelAt>>

\* the yielded update reaches the outputs and the generator is resumed
Deliver ==
    /\ pending # NoUpdate
    /\ ~cancelled
    /\ emitted' = Append(emitted, pending)
    /\ pending' = NoUpdate
    /\ UNCHANGED <<inputVars, chunkerVars, chunks, pc, i, full_translation,
                   chunk_accumulated, nev, exc, cancelled, output_file,
                   serviceVars, cancelAt>>

\* Stop button: cancels=[text_translate_evt] / cancels=[file_translate_evt]
Cancel ==
    /\ Running
    /\ ~cancelled
    /\ cancelled' = TRUE
    /\ cancelAt' = [pc |-> IF pending = NoUpdate THEN pc ELSE "yield",
                    requests |-> requests, emitted |-> emitted]
    /\ UNCHANGED <<inputVars, chunkerVars, chunks, pc, i, full_translation,
                   chunk_accumulated, nev, exc, pending, emitted, output_file,
                   serviceVars>>

\* a cancelled job is not resumed from its yield; the yielded value is dropped
Close ==
    /\ pending # NoUpdate
    /\ cancelled
    /\ pending' = NoUpdate
    /\ pc' = "cancelled"
    /\ UNCHANGED <<inputVars, chunkerVars, chunks, i, full_translation,
                   chunk_accumulated, nev, exc, emitted, cancelled, output_file,
                   serviceVars, cancelAt>>

Next ==
    \/ S_Empty
    \/ S_Client
    \/ S_Split
    \/ S_Request
    \/ S_CreateOk
    \/ S_CreateFail
    \/ S_Fragment
    \/ S_NoneDelta
    \/ S_StreamFail
    \/ S_StreamEnd
    \/ S_Except
    \/ S_Finish
    \/ B_NoFile
    \/ B_Read
    \/ B_Client
    \/ B_Split
    \/ B_Request
    \/ B_ResponseOk
    \/ B_ResponseFail
    \/ B_Save
    \/ Return
    \/ Deliver
    \/ Cancel
    \/ Close

Spec == JobInit /\ [][Next]_vars

TypeOK ==
    /\ pc \in {"call", "client", "split", "loop", "create", "stream", "except",
               "return", "done", "cancelled", "raised"}
    /\ i \in 0..Len(chunks)
    /\ inflight \subseteq 1..Len(chunks)

\* ======================================================= properties
Last(q) == q[Len(q)]

IsPrefix(p, q) == Len(p) <= Len(q) /\ SubSeq(q, 1, Len(p)) = p

UpTo(n) == [k \in 1..n |-> k]

Separators == {SP, ".", "?", "!", NL}

\* what chunk j has contributed to the output: its translation followed by
\* the separator when it is done, its error marker when it failed in batch mode
Contribution(j) ==
    IF status[j] = "done" THEN received[j] \o <<Sep>>
    ELSE IF status[j] = "failed" /\ mode = "batch" THEN <<ErrorMarker(j, failure[j])>>
    ELSE <<>>

RECURSIVE Accumulated(_)
Accumulated(k) == IF k = 0 THEN <<>> ELSE Accumulated(k - 1) \o Contribution(k)

\* the translations of the chunks done so far, each followed by the separator
RECURSIVE TranslationsOnly(_)
TranslationsOnly(k) ==
    IF k = 0 THEN <<>>
    ELSE TranslationsOnly(k - 1) \o (IF status[k] = "done" THEN received[k] \o <<Sep>> ELSE <<>>)

\* the update the caller sees last: the one being yielded, else the last delivered
FinalUpdate == IF pending # NoUpdate THEN pending ELSE Last(emitted)

\* C1: every chunk returned by split_text_into_chunks(T, M), M >= 1, has
\* length <= M, whatever separators T contains or lacks.
ChunkBound ==
    pc = "returned" => \A k \in 1..Len(chunks) : Len(chunks[k]) <= max_chunk_size

\* a token longer than M with no separator at all was cut into pieces
ChunkBoundWitness ==
    /\ pc = "returned"
    /\ \A k \in 1..Len(text) : text[k] \notin Separators
    /\ Len(text) > 2 * max_chunk_size
    /\ Len(chunks) >= 3

\* C2: concatenating the chunks returned by split_text_into_chunks(T, M) in
\* order yields exactly T.
Lossless ==
    pc = "returned" => Flatten(chunks) = text

\* a text that was split on ". ", then on " ", then hard-split, then merged
LosslessWitness ==
    /\ pc = "returned"
    /\ text = <<"a", ".", SP, "b">>
    /\ max_chunk_size = 2
    /\ final_atoms = << <<"a", ".">>, <<SP>>, <<>>, <<"b">> >>
    /\ chunks = << <<"a", ".">>, <<SP, "b">> >>

\* C3 as stated: whenever len(T) <= M the result is exactly one chunk equal to T.
SmallInputOneChunk ==
    (pc = "returned" /\ Len(text) <= max_chunk_size) => chunks = <<text>>

\* C3 amended: whenever T is not empty and len(T) <= M the result is exactly
\* one chunk equal to T (the empty text gives no chunk).
SmallNonEmptyInputOneChunk ==
    (pc = "returned" /\ text # <<>> /\ Len(text) <= max_chunk_size) => chunks = <<text>>

\* a text with separators that fits the limit came back as one chunk
SmallInputWitness ==
    /\ pc = "returned"
    /\ text = <<"a", NL, NL, "b">>
    /\ max_chunk_size = Len(text)
    /\ chunks = <<text>>

\* C4: no two adjacent returned chunks could have been merged: the lengths
\* of any two consecutive chunks add up to more than M.
MergeMaximal ==
    pc = "returned" =>
        \A k \in 1..(Len(chunks) - 1) :
            Len(chunks[k]) + Len(chunks[k + 1]) > max_chunk_size

\* atoms were merged and the result still has several chunks
MergeMaximalWitness ==
    /\ pc = "returned"
    /\ Len(chunks) >= 2
    /\ Len(final_atoms) > Len(chunks)
    /\ \E k \in 1..Len(text) : text[k] \in Separators

\* C5: in translate_streaming, once the service call of chunk j has failed the
\* job is on its way out: only chunks 1..j were ever requested, and the last
\* update is the translation of chunks 1..j-1 followed by the error marker of
\* chunk j with its reason, under the label "Error on chunk j".
StreamingFailFast ==
    \A j \in 1..Len(status) :
        (mode = "streaming" /\ status[j] = "failed") =>
            /\ requests = UpTo(j)
            /\ pc \in {"except", "return", "done", "cancelled"}
            /\ pc \in {"return", "done"} =>
                   FinalUpdate = Update(Accumulated(j - 1) \o <<ErrorMarker(j, failure[j]), Hint>>,
                                        Label("error", j, 0), "")

\* 3 chunks, the first call failed: the job is over, the output holds only
\* the marker of chunk 1 and nothing else was requested
StreamingFailFastWitness ==
    /\ mode = "streaming"
    /\ pc = "done"
    /\ Len(chunks) = 3
    /\ status = <<"failed", "pending", "pending">>
    /\ requests = <<1>>
    /\ Last(emitted).text = <<ErrorMarker(1, "refused"), Hint>>

\* C6: in translate_file_process every chunk is requested once, in order;
\* after each chunk the accumulated text holds, in chunk order, the
\* translation of each succeeding chunk and the marker of each failing one;
\* a job that runs to its end has requested every chunk, has written that
\* text to the output file and has emitted it with the file's path.
BatchFailSoft ==
    (mode = "batch" /\ full_translation # Unbound) =>
        /\ requests = UpTo(i)
        /\ pc \in {"loop", "return", "done"} => full_translation = Accumulated(i)
        /\ output_file # Unbound => output_file = Accumulated(Len(chunks))
        /\ pc = "done" =>
               /\ i = Len(chunks)
               /\ output_file = full_translation
               /\ Last(emitted) = Update(full_translation, NoLabel, "translated_")

\* 3 chunks, the second call failed: translation 1, marker 2, translation 3
BatchFailSoftWitness ==
    /\ mode = "batch"
    /\ pc = "done"
    /\ status = <<"done", "failed", "done">>
    /\ output_file = <<Frag(1, 1), Sep, ErrorMarker(2, "timeout"), Frag(3, 1), Sep>>
    /\ Last(emitted).path = "translated_"

InOrderOneAtATime ==
    /\ requests = UpTo(Len(requests))
    /\ Cardinality(inflight) <= 1
    /\ \A j \in inflight : j = Len(requests)
    /\ \A j \in 1..Len(status) :
           status[j] # "pending" => \A k \in 1..(j - 1) : status[k] \in {"done", "failed"}

\* C8 as stated: the accumulated text is the concatenation, in order, of the
\* translations of the chunks completed so far, each with its separator;
\* chunks are requested in order, one at a time.
AccumulationOrig ==
    full_translation # Unbound =>
        /\ full_translation = TranslationsOnly(Len(chunks))
        /\ InOrderOneAtATime

\* C8 amended: the accumulated text is the concatenation, in chunk order, of
\* the translation of each completed chunk followed by the separator and, in
\* translate_file_process, of the error marker of each failed chunk; chunks
\* are requested in order, one at a time.
AccumulationInvariant ==
    full_translation # Unbound =>
        /\ full_translation = Accumulated(Len(chunks))
        /\ InOrderOneAtATime

\* batch mode, chunk 1 failed, chunk 2 translated, chunk 3 in flight
AccumulationWitness ==
    /\ mode = "batch"
    /\ pc = "create"
    /\ status = <<"failed", "done", "inprogress">>
    /\ inflight = {3}
    /\ full_translation = <<ErrorMarker(1, "refused"), Frag(2, 1), Sep>>

\* C9: no exception escapes translate_streaming or translate_file_process.
NoExceptionEscapes ==
    pc # "raised"

\* C10: when the stream of chunk i fails after fragments of it were emitted,
\* the update emitted on failure starts with the last emitted view.
PartialKeptOnFailure ==
    ( /\ mode = "streaming"
      /\ pc = "return"
      /\ pending # NoUpdate
      /\ pending.label.kind = "error"
      /\ emitted # <<>>
      /\ Last(emitted).label = Label("processing", i, Len(chunks)) )
    => IsPrefix(Last(emitted).text, pending.text)

\* the stepwise chunker and the function used by the jobs agree
StepwiseAgrees ==
    pc = "returned" => chunks = split_text_into_chunks(text, max_chunk_size)
====
